---- MODULE Spec2Model ----
(***************************************************************************)
(* Spot price monitor: the hourly price pipeline (PriceService), the solar *)
(* forecast adapter (WeatherService), the recommendation engine            *)
(* (RecommendationService) and the notification policy of main.ts.         *)
(*                                                                         *)
(* Numbers.  EUR prices are carried in cents (the feed has two decimals),  *)
(* the CZK rate in tenths (25.3 -> 253), CZK prices are the integers       *)
(* Math.round produces.  Tolerances are percentages (0.05 -> 5).           *)
(* Comparisons the code makes in IEEE doubles are modelled exactly on the  *)
(* integers of the model, the rounding of the double product included.    *)
(*                                                                         *)
(* Optional values (T | null, T | undefined) are sequences of length at    *)
(* most one: << >> is null/undefined, <<v>> is the value v.  Clock times   *)
(* "HH:MM" are the four digits <<H, H, M, M>>.                             *)
(*                                                                         *)
(* A local const of the code that is read more than once is bound with     *)
(* Let(v, LAMBDA x : e), or with \E x \in {v} in an action: the value is   *)
(* computed once, as the assignment in the code computes it.              *)
(***************************************************************************)
EXTENDS Integers, Sequences, FiniteSets, TLC

VARIABLES
    clock,                    \* new Date().getHours()
    feedToday,                \* provider: today's samples, hour -> <<cents>> or << >>
    feedTomorrow,             \* provider: tomorrow's samples (none before publication)
    feedReachable,            \* provider: the last request was answered with the day's items
    hourlyPrices,             \* PriceService.hourlyPrices
    currentPrice,             \* PriceService.currentPrice
    settings,                 \* PriceService.settings.notifications
    currentForecast,          \* WeatherService.currentForecast
    currentState,             \* RecommendationService.currentState
    lastNotifiedLevel,        \* main.ts
    lastRecommendationStatus, \* main.ts
    inflight,                 \* price-feed requests in flight, in start order; newer is
                              \* history: the series a request started later has stored
    weatherInflight,          \* weather requests in flight, in start order
    startup,                  \* position of the app.whenReady continuation
    evals,                    \* history: policy evaluations of the last handler
    prevEval,                 \* history: the evaluation before those
    observed,                 \* history: what the policy had evaluated before the last handler
    events,                   \* webContents.send: the channels the last handler sent on
    now,                      \* Date.now(), in ms
    cachedCzkRate,            \* PriceService.cachedCzkRate, in tenths
    czkRateLastFetch,         \* PriceService.czkRateLastFetch
    rateInflight,             \* requests to the CNB in flight, each with the now of its call
    rateReturned              \* history: what the last fetchCzkRate to return returned

vars == <<clock, feedToday, feedTomorrow, hourlyPrices, currentPrice, settings,
          currentForecast, currentState, lastNotifiedLevel,
          lastRecommendationStatus, inflight, weatherInflight, startup,
          evals, prevEval, observed, events, feedReachable,
          now, cachedCzkRate, czkRateLastFetch, rateInflight, rateReturned>>

\* the exchange-rate cache and its requests
rateVars == <<now, cachedCzkRate, czkRateLastFetch, rateInflight, rateReturned>>

(***************************************************************************)
(* Bounds of the model.                                                    *)
(***************************************************************************)
NumHours == 3          \* hours of a day the provider samples: 0 .. NumHours-1
MaxInFlight == 1       \* price-feed requests the timers keep in flight at once
MaxWeatherInFlight == 1 \* weather requests the timers and settings keep in flight

Hours == 0 .. (NumHours - 1)

(***************************************************************************)
(* Program constants.                                                      *)
(***************************************************************************)
CzkRate10 == 253            \* cachedCzkRate = 25.3
HoursPerDay == 24
VeryNearTolerance == 5      \* 0.05
NearTolerance == 15         \* 0.15
EvSolarThreshold == 500
LaundrySolarThreshold == 300
WindowEndThreshold == 200
StabilityHours == 2
RateCacheMs == 3600000      \* the rate is cached for 1 hour

\* const x = v; e
Let(v, In(_)) == CHOOSE r \in {In(x) : x \in {v}} : TRUE

None == << >>
Some(v) == <<v>>
IsNone(o) == o = << >>
IsSome(o) == o # << >>
Val(o) == o[1]

(***************************************************************************)
(* Small sequence helpers (Array.prototype.filter / map / some / min).     *)
(***************************************************************************)
RECURSIVE SeqSum(_)
SeqSum(s) == IF s = << >> THEN 0 ELSE Head(s) + SeqSum(Tail(s))

RECURSIVE SeqMin(_)
SeqMin(s) == IF Len(s) = 1 THEN s[1]
             ELSE Let(SeqMin(Tail(s)), LAMBDA m : IF Head(s) <= m THEN Head(s) ELSE m)

RECURSIVE SeqMax(_)
SeqMax(s) == IF Len(s) = 1 THEN s[1]
             ELSE Let(SeqMax(Tail(s)), LAMBDA m : IF Head(s) >= m THEN Head(s) ELSE m)

PricesCZK(hours) == [i \in 1 .. Len(hours) |-> hours[i].priceCZK]

\* first index of s whose element satisfies Test, 0 when there is none
FirstIndex(s, Test(_)) ==
    IF \E i \in 1 .. Len(s) : Test(s[i])
    THEN CHOOSE i \in 1 .. Len(s) : Test(s[i]) /\ \A j \in 1 .. (i - 1) : ~Test(s[j])
    ELSE 0

\* "HH:00": toString().padStart(2, '0') followed by ':00'
HourStr(h) == <<h \div 10, h % 10, 0, 0>>

(***************************************************************************)
(* PriceService: classification and the hourly series.                     *)
(***************************************************************************)
\* [...allPrices].sort((a, b) => a - b): insertion into an ascending list
RECURSIVE SortAsc(_)
\* mutant: the copy of the prices is left in the order of the items
Insert_Unsorted(v, s) == Append(s, v)

Insert(v, s) ==
    Let(FirstIndex(s, LAMBDA e : e > v), LAMBDA k :
        IF k = 0 THEN Append(s, v)
        ELSE SubSeq(s, 1, k - 1) \o <<v>> \o SubSeq(s, k, Len(s)))
SortAsc(s) ==
    IF s = << >> THEN << >>
    ELSE Let(SortAsc(SubSeq(s, 1, Len(s) - 1)), LAMBDA rest : Insert(s[Len(s)], rest))

\* Math.ceil(a / b) for b > 0
CeilDiv(a, b) == (a + b - 1) \div b

\* mutant: the two outer tiers are exchanged
LevelOf_Exchanged(levelNum) ==
    IF levelNum <= 8 THEN "high" ELSE IF levelNum <= 16 THEN "medium" ELSE "low"

LevelOf(levelNum) ==
    IF levelNum <= 8 THEN "low" ELSE IF levelNum <= 16 THEN "medium" ELSE "high"

calculateLevel(price, allPrices) ==
    IF Len(allPrices) = 0 THEN [level |-> "medium", levelNum |-> 12]
    ELSE Let(SortAsc(allPrices), LAMBDA sorted :
         Let(FirstIndex(sorted, LAMBDA p : p >= price), LAMBDA position :  \* findIndex + 1
         Let(CeilDiv(position * 24, Len(sorted)), LAMBDA raw :
         Let(IF position = 0 THEN 24 ELSE IF raw < 1 THEN 1 ELSE raw, LAMBDA levelNum :
             [level |-> LevelOf(levelNum), levelNum |-> levelNum]))))

\* Math.round(priceEur * cachedCzkRate), priceEur in cents
RoundCZK(cents) == (cents * CzkRate10 + 500) \div 1000

\* convertCurrency for the CZK currency, in thousandths of CZK (not rounded)
convertCurrency(cents) == cents * CzkRate10

\* the OTE items of one date, in the provider's order
RECURSIVE ItemsFrom(_, _)
ItemsFrom(feed, h) ==
    IF h >= NumHours THEN << >>
    ELSE (IF feed[h] = << >> THEN << >> ELSE <<[hour |-> h, priceEur |-> feed[h][1]]>>)
         \o ItemsFrom(feed, h + 1)

\* .sort((a, b) => a.hour - b.hour), stable
RECURSIVE SortByHour(_)
InsertByHour(r, s) ==
    Let(FirstIndex(s, LAMBDA e : e.hour > r.hour), LAMBDA k :
        IF k = 0 THEN Append(s, r)
        ELSE SubSeq(s, 1, k - 1) \o <<r>> \o SubSeq(s, k, Len(s)))
SortByHour(s) ==
    IF s = << >> THEN << >>
    ELSE Let(SortByHour(SubSeq(s, 1, Len(s) - 1)), LAMBDA rest :
             InsertByHour(s[Len(s)], rest))

\* items.map(item => HourlyPrice).sort(by hour), then enrichHourlyData
HourlySeries(response) ==
    Let(response \o << >>, LAMBDA items :
    Let([i \in 1 .. Len(items) |-> items[i].priceEur] \o << >>, LAMBDA prices :
    Let([i \in 1 .. Len(items) |->
            Let(calculateLevel(items[i].priceEur, prices), LAMBDA lv :
                [hour |-> items[i].hour,
                 priceEur |-> items[i].priceEur,
                 priceCZK |-> RoundCZK(items[i].priceEur),
                 priceLocal |-> convertCurrency(items[i].priceEur),
                 level |-> lv.level,
                 levelNum |-> lv.levelNum])] \o << >>, LAMBDA enriched :
        SortByHour(enriched))))

\* the series a successful fetchHourlyPrices stores
FetchedHourly(today, tomorrow) ==
    [hoursToday |-> HourlySeries(ItemsFrom(today, 0)),
     hoursTomorrow |-> HourlySeries(ItemsFrom(tomorrow, 0))]

\* mutant: no record is ever found for the current hour
DerivedPrice_NotFound(hourly, hour) == None

\* the PriceData fetchCurrentPrice derives, << >> when it returns null
DerivedPrice(hourly, hour) ==
    IF IsNone(hourly) \/ Len(Val(hourly).hoursToday) = 0 THEN None
    ELSE Let(FirstIndex(Val(hourly).hoursToday, LAMBDA h : h.hour = hour), LAMBDA k :
             IF k = 0 THEN None
             ELSE LET hourData == Val(hourly).hoursToday[k]
                  IN  Some([priceEUR |-> hourData.priceEur,
                            priceCZK |-> hourData.priceCZK,
                            level |-> hourData.level,
                            levelNum |-> hourData.levelNum,
                            priceLocal |-> convertCurrency(hourData.priceEur)]))

(***************************************************************************)
(* RecommendationService.                                                  *)
(***************************************************************************)
\* sum / length, kept as the pair so that "price < average" is exact
calculateDailyAverage(hours) ==
    IF Len(hours) = 0 THEN [sum |-> 0, n |-> 1]
    ELSE [sum |-> SeqSum(PricesCZK(hours)), n |-> Len(hours)]

\* mutant: a price equal to the average counts as below it
BelowAverage_OrEqual(price, dailyAverage) == price * dailyAverage.n <= dailyAverage.sum

\* price < dailyAverage
BelowAverage(price, dailyAverage) == price * dailyAverage.n < dailyAverage.sum

calculateDailyMin(hours) ==
    IF Len(hours) = 0 THEN 0 ELSE SeqMin(PricesCZK(hours))

RECURSIVE Pow2Floor(_)
\* the largest power of two that is at most x, x >= 1
Pow2Floor(x) == IF x < 2 THEN 1 ELSE 2 * Pow2Floor(x \div 2)

\* price <= dailyMin * (1 + tolerance) in IEEE doubles, for integer
\* operands.  Off the boundary the double product decides as the exact one.
\* On it (100 * price = dailyMin * (100 + tolerance)): 1 + 0.05 is the
\* double just above 1.05, so the product never falls below the integer;
\* 1 + 0.15 is the double 0.4 ulp below 1.15, so for dailyMin > 0 the product
\* rounds to the integer only when 0.4 * dailyMin ulps are at most half an
\* ulp of the product (100 * 1.15 = 114.99999999999999).
DoubleLeqScaled(price, dailyMin, tolerance) ==
    IF 100 * price # dailyMin * (100 + tolerance)
    THEN 100 * price < dailyMin * (100 + tolerance)
    ELSE IF tolerance = NearTolerance /\ dailyMin > 0
         THEN 4 * dailyMin <= 5 * Pow2Floor(price)
         ELSE TRUE

isNearLowestPrice(price, dailyMin, tolerance) ==
    IF dailyMin = 0 THEN FALSE
    ELSE DoubleLeqScaled(price, dailyMin, tolerance)

\* sun.hourlyIrradiance scanned from index i0 (0-based) for Test
NextIrradiance(sun, i0, Test(_)) ==
    LET s == sun.hourlyIrradiance
        ks == {i \in (i0 + 1) .. Len(s) : Test(s[i])}
    IN  IF ks = {} THEN -1 ELSE (CHOOSE i \in ks : \A j \in ks : i <= j) - 1

estimateWindowEnd(sun, hour) ==
    IF IsNone(sun) THEN None
    ELSE LET i == NextIrradiance(Val(sun), 0, LAMBDA v : v < WindowEndThreshold)
         IN  IF i >= 0 THEN Some(HourStr((hour + i) % HoursPerDay))
             ELSE Some(Val(sun).sunset)

\* Math.round((price / dailyMin - 1) * 100), dailyMin > 0
PctAboveMin(price, dailyMin) == (200 * (price - dailyMin) + dailyMin) \div (2 * dailyMin)

getEvChargingRecommendation(price, dailyAverage, dailyMin, sun, hour) ==
    LET isNearLowest == isNearLowestPrice(price.priceCZK, dailyMin, NearTolerance)
        isVeryNearLowest == isNearLowestPrice(price.priceCZK, dailyMin, VeryNearTolerance)
        isHighSolar == IsSome(sun) /\ Val(sun).currentIrradiance > EvSolarThreshold
    IN  IF isVeryNearLowest /\ isHighSolar
        THEN Some([activity |-> "ev_charging", quality |-> "excellent",
                   reason |-> "Lowest price + sunny",
                   windowEnd |-> estimateWindowEnd(sun, hour)])
        ELSE IF isNearLowest
        THEN LET pctAboveMin == PctAboveMin(price.priceCZK, dailyMin)
             IN  Some([activity |-> "ev_charging", quality |-> "good",
                       reason |-> IF pctAboveMin <= 2 THEN "Lowest price of the day"
                                  ELSE ToString(pctAboveMin) \o "% above daily low",
                       windowEnd |-> None])
        ELSE IF isHighSolar /\ BelowAverage(price.priceCZK, dailyAverage)
        THEN Some([activity |-> "ev_charging", quality |-> "good",
                   reason |-> "High solar generation",
                   windowEnd |-> estimateWindowEnd(sun, hour)])
        ELSE None

\* hourlyPrices.hoursToday.filter(h => h.hour >= currentHour && h.hour < currentHour + hours)
RelevantToday(hoursToday, hour, hours) ==
    SelectSeq(hoursToday, LAMBDA h : h.hour >= hour /\ h.hour < hour + hours)

isPriceStable(hourly, hours, hour) ==
    Let(RelevantToday(hourly.hoursToday, hour, hours), LAMBDA today :
    LET hoursFromTomorrow == hours - Len(today)
        tomorrowHours ==
            SubSeq(hourly.hoursTomorrow, 1,
                   IF hoursFromTomorrow < Len(hourly.hoursTomorrow)
                   THEN hoursFromTomorrow ELSE Len(hourly.hoursTomorrow))
    IN  Let(IF Len(today) < hours THEN today \o tomorrowHours ELSE today,
            LAMBDA relevantHours :
        IF Len(relevantHours) < 2 THEN TRUE
        ELSE Let(PricesCZK(relevantHours) \o << >>, LAMBDA prices :
             Let(SeqMax(prices), LAMBDA maxPrice :
             Let(SeqMin(prices), LAMBDA minPrice :
                 \* (maxPrice - minPrice) / minPrice < 0.3; x/0 is Infinity or NaN
                 IF minPrice = 0 THEN FALSE
                 ELSE IF minPrice > 0 THEN 10 * (maxPrice - minPrice) < 3 * minPrice
                 ELSE TRUE)))))

getLaundryRecommendation(price, dailyAverage, dailyMin, sun, hourly, hour) ==
    LET isNearLowest == isNearLowestPrice(price.priceCZK, dailyMin, NearTolerance)
        isVeryNearLowest == isNearLowestPrice(price.priceCZK, dailyMin, VeryNearTolerance)
        isSunny == /\ IsSome(sun)
                   /\ Val(sun).currentIrradiance > LaundrySolarThreshold
                   /\ Val(sun).isDaytime
    IN  Let(isPriceStable(hourly, StabilityHours, hour), LAMBDA isStable :
        IF isVeryNearLowest /\ isSunny /\ isStable
        THEN Some([activity |-> "laundry", quality |-> "excellent",
                   reason |-> "Lowest price + sunny", windowEnd |-> None])
        ELSE IF isNearLowest /\ isStable
        THEN Some([activity |-> "laundry", quality |-> "good",
                   reason |-> "Near lowest price", windowEnd |-> None])
        ELSE IF isSunny /\ BelowAverage(price.priceCZK, dailyAverage) /\ isStable
        THEN Some([activity |-> "laundry", quality |-> "good",
                   reason |-> "Good solar", windowEnd |-> None])
        ELSE None)

findNextGoodWindow(hourly, sun, dailyMin, hour) ==
    LET today == hourly.hoursToday
        tomorrow == hourly.hoursTomorrow
    IN
    Let(FirstIndex(today, LAMBDA h :
            h.hour > hour /\ isNearLowestPrice(h.priceCZK, dailyMin, NearTolerance)),
        LAMBDA k1 :
    Let(calculateDailyMin(tomorrow), LAMBDA tomorrowMin :
    Let(FirstIndex(tomorrow, LAMBDA h :
            isNearLowestPrice(h.priceCZK, tomorrowMin, VeryNearTolerance)),
        LAMBDA k2 :
    Let(IF IsNone(sun) THEN -1
        ELSE NextIrradiance(Val(sun), 1, LAMBDA v : v > EvSolarThreshold),
        LAMBDA i3 :
        IF k1 # 0
        THEN Some([time |-> HourStr(today[k1].hour), tomorrow |-> FALSE,
                   reason |-> "Price drops"])
        ELSE IF Len(tomorrow) > 0 /\ k2 # 0
        THEN Some([time |-> HourStr(tomorrow[k2].hour), tomorrow |-> TRUE,
                   reason |-> "Lowest price"])
        ELSE IF i3 >= 0
        THEN Some([time |-> HourStr((hour + i3) % HoursPerDay), tomorrow |-> FALSE,
                   reason |-> "Solar peaks"])
        ELSE None))))

\* mutant: any entry of the list counts as one of quality q
HasQuality_AnyEntry(recommendations, q) == Len(recommendations) > 0

\* recommendations.some((r) => r.quality === q)
HasQuality(recommendations, q) ==
    \E i \in 1 .. Len(recommendations) : recommendations[i].quality = q

\* the RecommendationState getRecommendations stores in currentState and returns
getRecommendations(price, hourly, sun, hour) ==
    IF IsNone(price) \/ IsNone(hourly)
    THEN [recommendations |-> << >>, overallStatus |-> "wait",
          statusMessage |-> "Loading price data...", nextWindow |-> None]
    ELSE LET hp == Val(hourly) IN
         Let(calculateDailyAverage(hp.hoursToday), LAMBDA dailyAverage :
         Let(calculateDailyMin(hp.hoursToday), LAMBDA dailyMin :
         Let(getEvChargingRecommendation(Val(price), dailyAverage, dailyMin, sun, hour)
             \o getLaundryRecommendation(Val(price), dailyAverage, dailyMin, sun, hp, hour),
             LAMBDA recommendations :
         LET hasExcellent == HasQuality(recommendations, "excellent")
             hasGood == HasQuality(recommendations, "good")
         IN  [recommendations |-> recommendations,
              overallStatus |->
                  IF Len(recommendations) > 0
                  THEN (IF hasExcellent THEN "go" ELSE "okay")
                  ELSE "wait",
              statusMessage |->
                  IF Len(recommendations) > 0
                  THEN (IF hasExcellent THEN "Excellent conditions now!"
                        ELSE IF hasGood THEN "Good time for high-power activities"
                        ELSE "Acceptable conditions")
                  ELSE "Wait for better conditions",
              nextWindow |-> findNextGoodWindow(hp, sun, dailyMin, hour)])))

\* mutant: the list outlives the call and keeps the entries of earlier calls
StoreState_Accumulate(previous, state) ==
    IF IsNone(previous) THEN Some(state)
    ELSE Some([state EXCEPT !.recommendations = Val(previous).recommendations \o @])

\* this.currentState = { recommendations, overallStatus, statusMessage, nextWindow }
StoreState(previous, state) == Some(state)

\* the recommendation of an activity in a list, << >> when find() is undefined
FindActivity(recommendations, a) ==
    SelectSeq(recommendations, LAMBDA r : r.activity = a)

\* the text is cut before the "sunny for Nh" suffix, which depends on the minute
getNotificationMessage(state, price, sun) ==
    IF IsNone(state) \/ Len(Val(state).recommendations) = 0 THEN None
    ELSE LET hasEv == FindActivity(Val(state).recommendations, "ev_charging")
             hasLaundry == FindActivity(Val(state).recommendations, "laundry")
         IN  IF hasEv # << >> /\ hasEv[1].quality = "excellent"
             THEN Some("Perfect time to charge! Low price")
             ELSE IF hasEv # << >> /\ hasEv[1].quality = "good"
             THEN Some("Good time to charge EV - " \o hasEv[1].reason)
             ELSE IF hasLaundry # << >> /\ hasLaundry[1].quality = "excellent"
             THEN Some("Great laundry window! " \o hasLaundry[1].reason)
             ELSE None

(***************************************************************************)
(* Renderer: the Recommendations panel.                                    *)
(***************************************************************************)
\* mutant: the panel shows the window next to the activity cards as well
RecommendationsNextWindow_Unconditional(data) == data.nextWindow

\* the "Next window" the panel shows for a state, << >> when it shows none
RecommendationsNextWindow(data) ==
    IF Len(data.recommendations) > 0 THEN None ELSE data.nextWindow

(***************************************************************************)
(* WeatherService.                                                         *)
(***************************************************************************)
\* mutant: the upper threshold is inclusive
calculateGenerationPotential_Inclusive(irradiance, cloudCover) ==
    IF irradiance >= 600 /\ cloudCover < 30 THEN "high"
    ELSE IF irradiance > 200 \/ cloudCover < 60 THEN "medium"
    ELSE "low"

calculateGenerationPotential(irradiance, cloudCover) ==
    IF irradiance > 600 /\ cloudCover < 30 THEN "high"
    ELSE IF irradiance > 200 \/ cloudCover < 60 THEN "medium"
    ELSE "low"

getWeatherCondition(cloudCover) ==
    IF cloudCover < 20 THEN "clear"
    ELSE IF cloudCover < 50 THEN "partly_cloudy"
    ELSE IF cloudCover < 80 THEN "cloudy"
    ELSE "overcast"

\* array.slice(from, to) of a 0-based array held as a sequence
Slice(s, from, to) ==
    SubSeq(s, from + 1, IF to < Len(s) THEN to ELSE Len(s))

\* the SunForecast fetchSunForecast stores for a parsed WeatherData
SunForecastOf(data, hour) ==
    [currentIrradiance |-> data.current.direct_radiation,
     cloudCover |-> data.current.cloud_cover,
     hourlyIrradiance |-> Slice(data.hourly.direct_radiation, hour, hour + HoursPerDay),
     hourlyCloudCover |-> Slice(data.hourly.cloud_cover, hour, hour + HoursPerDay),
     sunrise |-> data.daily.sunrise,
     sunset |-> data.daily.sunset,
     generationPotential |->
         calculateGenerationPotential(data.current.direct_radiation, data.current.cloud_cover),
     isDaytime |-> data.current.is_day = 1,
     weatherCondition |-> getWeatherCondition(data.current.cloud_cover),
     currentHour |-> hour]

(***************************************************************************)
(* main.ts: the notification policy.  The mutable state a handler works on *)
(* is the record m = [currentState, level, status, log, sent, cache]: the   *)
(* engine's currentState, lastNotifiedLevel, lastRecommendationStatus, the *)
(* evaluations made and the channels sent on so far by the handler, and    *)
(* what getCurrentPrice, getHourlyPrices, getCurrentForecast and the clock *)
(* answer at this point of the handler.                                    *)
(***************************************************************************)
\* mutant: the toggles are not consulted
NotificationsDisabled_Never(st) == FALSE

\* line 259: both toggles off
NotificationsDisabled(st) == ~st.lowPrice /\ ~st.highPrice

\* line 264
StatusChanged(recState, lastStatus) ==
    IsSome(recState) /\ lastStatus # Val(recState).overallStatus

\* mutant: the unset marker is not told from a real status
RecommendationNotifies_NoSentinel(recState, lastStatus, message, st) ==
    /\ Val(recState).overallStatus = "go"
    /\ IsSome(message)
    /\ st.lowPrice

\* lines 265-269: showNotification('Good Time Now!') is reached
RecommendationNotifies(recState, lastStatus, message, st) ==
    /\ Val(recState).overallStatus = "go"
    /\ lastStatus # "null"
    /\ IsSome(message)
    /\ st.lowPrice

\* mutant: every tier other than low counts as high
PriceNotification_NotLowIsHigh(level, lastLevel, st) ==
    IF level = "low" /\ lastLevel # "null" /\ st.lowPrice THEN "low"
    ELSE IF level # "low" /\ lastLevel # "null" /\ st.highPrice THEN "high"
    ELSE "none"

\* lines 277-289: the price notification shown, "none" when there is none
PriceNotification(level, lastLevel, st) ==
    IF level = "low" /\ lastLevel # "null" /\ st.lowPrice THEN "low"
    ELSE IF level = "high" /\ lastLevel # "null" /\ st.highPrice THEN "high"
    ELSE "none"

EvalRecord(m, price, recState, st, emitted) ==
    [level |-> price.level,
     status |-> IF IsSome(recState) THEN Val(recState).overallStatus ELSE "none",
     real |-> IsSome(recState) /\ Val(recState).statusMessage # "Loading price data...",
     fresh |-> \/ IsNone(recState)
               \/ Val(recState) = getRecommendations(m.cache.price, m.cache.hourly,
                                                      m.cache.sun, m.cache.hour),
     prevLevel |-> m.level,
     prevStatus |-> m.status,
     lowPrice |-> st.lowPrice,
     highPrice |-> st.highPrice,
     emitted |-> emitted]

sendContextualNotification(m, price, recState, sun, st) ==
    IF NotificationsDisabled(st)
    THEN [m EXCEPT !.log = Append(@, EvalRecord(m, price, recState, st, "none"))]
    ELSE IF StatusChanged(recState, m.status)
    THEN LET message == getNotificationMessage(m.currentState, price, sun)
             shown == RecommendationNotifies(recState, m.status, message, st)
         IN  [m EXCEPT !.status = Val(recState).overallStatus,
                       !.log = Append(@, EvalRecord(m, price, recState, st,
                                   IF shown THEN "recommendation" ELSE "none"))]
    ELSE IF m.level # price.level
    THEN [m EXCEPT !.level = price.level,
                   !.log = Append(@, EvalRecord(m, price, recState, st,
                               PriceNotification(price.level, m.level, st)))]
    ELSE [m EXCEPT !.log = Append(@, EvalRecord(m, price, recState, st, "none"))]

\* the tray exists from createTray on, before the first fetch is started
updateTray(m, data, sun, st) ==
    sendContextualNotification(m, data, m.currentState, sun, st)

\* the values the services hold when a callback or updateRecommendations runs
Cached(price, hourly, sun, hour) ==
    [price |-> price, hourly |-> hourly, sun |-> sun, hour |-> hour]

updateRecommendations(m, price, hourly, sun, st, hour) ==
    Let(getRecommendations(price, hourly, sun, hour), LAMBDA state :
    Let([m EXCEPT !.currentState = Some(state),
                  !.sent = Append(@, "recommendations-updated"),
                  !.cache = Cached(price, hourly, sun, hour)], LAMBDA m1 :
        IF IsSome(price) THEN updateTray(m1, Val(price), sun, st) ELSE m1))

\* priceService.onPriceUpdate callback; data is the new currentPrice
onPriceUpdate(m, data, hourly, sun, st, hour) ==
    Let(updateTray([m EXCEPT !.cache = Cached(Some(data), hourly, sun, hour)],
                   data, sun, st), LAMBDA m1 :
        updateRecommendations([m1 EXCEPT !.sent = Append(@, "price-updated")],
                              Some(data), hourly, sun, st, hour))

\* priceService.onHourlyUpdate callback; hourly is the new hourlyPrices
onHourlyUpdate(m, price, hourly, sun, st, hour) ==
    updateRecommendations([m EXCEPT !.sent = Append(@, "hourly-updated")],
                          price, hourly, sun, st, hour)

\* weatherService.onWeatherUpdate callback; sun is the new currentForecast
onWeatherUpdate(m, price, hourly, sun, st, hour) ==
    updateRecommendations([m EXCEPT !.sent = Append(@, "weather-updated")],
                          price, hourly, sun, st, hour)

\* fetchCurrentPrice from line 1262 on: [m, price] after it
deriveCurrentPrice(m, price, hourly, sun, st, hour) ==
    Let(DerivedPrice(hourly, hour), LAMBDA d :
        IF IsNone(d) THEN [m |-> m, price |-> price]
        ELSE [m |-> onPriceUpdate(m, Val(d), hourly, sun, st, hour), price |-> d])

(***************************************************************************)
(* The environment: what the provider and the weather service can answer.  *)
(***************************************************************************)
Unpublished == [h \in Hours |-> << >>]
\* a day that is cheap until its last hour, a day that is cheap in hour 1
\* only, and a day for which hour 1 is missing
TodayFeeds ==
    {[h \in Hours |-> IF h = NumHours - 1 THEN <<800>> ELSE <<400>>],
     [h \in Hours |-> IF h = 1 THEN <<400>> ELSE <<800>>],
     [h \in Hours |-> IF h = 1 THEN << >> ELSE IF h = 0 THEN <<800>> ELSE <<400>>]}

Sunrise == <<0, 6, 0, 0>>
Sunset == <<2, 0, 0, 0>>
WeatherOf(radiation, cloud, day) ==
    [current |-> [direct_radiation |-> radiation, cloud_cover |-> cloud, is_day |-> day],
     hourly |-> [direct_radiation |-> [i \in 1 .. 2 * NumHours |-> radiation],
                 cloud_cover |-> [i \in 1 .. 2 * NumHours |-> cloud]],
     daily |-> [sunrise |-> Sunrise, sunset |-> Sunset]]
WeatherPayloads == {WeatherOf(0, 90, 0), WeatherOf(620, 10, 1)}

Toggles == [lowPrice : BOOLEAN, highPrice : BOOLEAN]
DEFAULT_SETTINGS == [lowPrice |-> TRUE, highPrice |-> TRUE]

(***************************************************************************)
(* The application.                                                        *)
(***************************************************************************)
\* the exchange-rate cache of a new PriceService, some time after the epoch
RateInit ==
    /\ now = RateCacheMs
    /\ cachedCzkRate = CzkRate10
    /\ czkRateLastFetch = 0
    /\ rateInflight = << >>
    /\ rateReturned = None

\* the handler state at the start of a handler
M0 == [currentState |-> currentState,
       level |-> lastNotifiedLevel,
       status |-> lastRecommendationStatus,
       log |-> << >>,
       sent |-> << >>,
       cache |-> Cached(currentPrice, hourlyPrices, currentForecast, clock)]

NoEval == [level |-> "null", status |-> "null"]

\* what a handler that ended in state m with current price p leaves behind
Commit(m, p) ==
    /\ currentState' = m.currentState
    /\ lastNotifiedLevel' = m.level
    /\ lastRecommendationStatus' = m.status
    /\ currentPrice' = p
    /\ evals' = m.log
    /\ events' = m.sent
    /\ prevEval' = IF evals = << >> THEN prevEval
                   ELSE [level |-> evals[Len(evals)].level,
                         status |-> evals[Len(evals)].status]
    /\ observed' = [any |-> observed.any \/ evals # << >>,
                    real |-> observed.real \/ \E i \in 1 .. Len(evals) : evals[i].real]

Remove(s, i) == SubSeq(s, 1, i - 1) \o SubSeq(s, i + 1, Len(s))

\* request i has stored the series `stored`: the requests started before it
\* and still in flight have been overtaken
Overtake(s, i, stored) ==
    [j \in 1 .. Len(s) |->
        IF j < i /\ IsNone(s[j].newer) THEN [s[j] EXCEPT !.newer = stored] ELSE s[j]] \o << >>

\* app.whenReady up to its first await: both initial fetches are in flight
Init ==
    /\ clock = 0
    /\ feedToday \in TodayFeeds
    /\ feedTomorrow = Unpublished
    /\ hourlyPrices = None
    /\ currentPrice = None
    /\ settings = DEFAULT_SETTINGS
    /\ currentForecast = None
    /\ currentState = None
    /\ lastNotifiedLevel = "null"
    /\ lastRecommendationStatus = "null"
    /\ inflight = <<[kind |-> "current", startup |-> TRUE, newer |-> None],
                    [kind |-> "hourly", startup |-> TRUE, newer |-> None]>>
    /\ weatherInflight = << >>
    /\ startup = "prices"
    /\ evals = << >>
    /\ prevEval = NoEval
    /\ observed = [any |-> FALSE, real |-> FALSE]
    /\ events = << >>
    /\ feedReachable = TRUE
    /\ RateInit

\* a price-feed request completes: fetchHourlyPrices from line 1299 on, the
\* hourly callback, the fetchCurrentPrice that awaited it, and the
\* app.whenReady continuation when this was the last of its two fetches
HourlyResponse(i, answer) ==
    \E fetched \in
           {IF answer = "ok" THEN Some(FetchedHourly(feedToday, feedTomorrow))
            ELSE IF answer = "empty" THEN Some(FetchedHourly(Unpublished, Unpublished))
            ELSE None} :
    \E hourly \in {IF IsSome(fetched) THEN fetched ELSE hourlyPrices}, m0 \in {M0} :
    \E m1 \in
           {IF IsSome(fetched)
            THEN onHourlyUpdate(m0, currentPrice, hourly, currentForecast,
                                settings, clock)
            ELSE m0} :
    \E r \in
           {IF inflight[i].kind = "current"
            THEN deriveCurrentPrice(m1, currentPrice, hourly, currentForecast,
                                    settings, clock)
            ELSE [m |-> m1, price |-> currentPrice]} :
    LET req == inflight[i]
        rest == Remove(Overtake(inflight, i, fetched), i)
        allDone == req.startup /\ \A j \in 1 .. Len(rest) : ~rest[j].startup
    IN  /\ inflight' = rest
        /\ hourlyPrices' = hourly
        /\ Commit(r.m, r.price)
        /\ IF allDone
           THEN /\ startup' = "weather"
                /\ weatherInflight' = Append(weatherInflight, [startup |-> TRUE])
           ELSE UNCHANGED <<startup, weatherInflight>>
        /\ feedReachable' = (answer = "ok")
        /\ UNCHANGED <<clock, feedToday, feedTomorrow, settings, currentForecast>>
        /\ UNCHANGED rateVars

\* the 5-minute timer: fetchCurrentPrice
FetchCurrentPrice ==
    /\ startup = "done"
    /\ IF IsNone(hourlyPrices)
       THEN /\ Len(inflight) < MaxInFlight
            /\ inflight' = Append(inflight, [kind |-> "current", startup |-> FALSE,
                                              newer |-> None])
            /\ Commit(M0, currentPrice)
       ELSE \E m0 \in {M0} :
            \E r \in {deriveCurrentPrice(m0, currentPrice, hourlyPrices, currentForecast,
                                         settings, clock)} :
                /\ Commit(r.m, r.price)
                /\ UNCHANGED inflight
    /\ UNCHANGED <<clock, feedToday, feedTomorrow, hourlyPrices, settings,
                   currentForecast, weatherInflight, startup, feedReachable>>
    /\ UNCHANGED rateVars

\* the 30-minute timer: fetchHourlyPrices
FetchHourlyPrices ==
    /\ startup = "done"
    /\ Len(inflight) < MaxInFlight
    /\ inflight' = Append(inflight, [kind |-> "hourly", startup |-> FALSE,
                                      newer |-> None])
    /\ Commit(M0, currentPrice)
    /\ UNCHANGED <<clock, feedToday, feedTomorrow, hourlyPrices, settings,
                   currentForecast, weatherInflight, startup, feedReachable>>
    /\ UNCHANGED rateVars

CanStartWeather ==
    Len(SelectSeq(weatherInflight, LAMBDA q : ~q.startup)) < MaxWeatherInFlight

\* the 30-minute timer: fetchSunForecast
FetchSunForecast ==
    /\ startup = "done"
    /\ CanStartWeather
    /\ weatherInflight' = Append(weatherInflight, [startup |-> FALSE])
    /\ Commit(M0, currentPrice)
    /\ UNCHANGED <<clock, feedToday, feedTomorrow, hourlyPrices, settings,
                   currentForecast, inflight, startup, feedReachable>>
    /\ UNCHANGED rateVars

\* a weather request completes: fetchSunForecast from line 113 on, the
\* weather callback, and the app.whenReady continuation (line 440)
WeatherResponse(i, answer) ==
    \E forecast \in
           {IF IsSome(answer) THEN Some(SunForecastOf(Val(answer), clock))
            ELSE currentForecast}, m0 \in {M0} :
    \E m1 \in
           {IF IsSome(answer)
            THEN onWeatherUpdate(m0, currentPrice, hourlyPrices, forecast,
                                 settings, clock)
            ELSE m0} :
    \E m2 \in
           {IF weatherInflight[i].startup
            THEN updateRecommendations(m1, currentPrice, hourlyPrices, forecast,
                                       settings, clock)
            ELSE m1} :
    LET req == weatherInflight[i]
    IN  /\ weatherInflight' = Remove(weatherInflight, i)
        /\ currentForecast' = forecast
        /\ Commit(m2, currentPrice)
        /\ startup' = IF req.startup THEN "done" ELSE startup
        /\ UNCHANGED <<clock, feedToday, feedTomorrow, hourlyPrices, settings, inflight,
                       feedReachable>>
        /\ UNCHANGED rateVars

\* ipcMain 'update-settings': the toggles change and the weather is re-fetched
UpdateSettings(t) ==
    /\ t # settings
    /\ CanStartWeather
    /\ settings' = t
    /\ weatherInflight' = Append(weatherInflight, [startup |-> FALSE])
    /\ Commit(M0, currentPrice)
    /\ UNCHANGED <<clock, feedToday, feedTomorrow, hourlyPrices, currentForecast,
                   inflight, startup, feedReachable>>
    /\ UNCHANGED rateVars

\* the wall clock reaches the next hour of the day
Tick ==
    /\ clock < NumHours - 1
    /\ clock' = clock + 1
    /\ Commit(M0, currentPrice)
    /\ UNCHANGED <<feedToday, feedTomorrow, hourlyPrices, settings, currentForecast,
                   inflight, weatherInflight, startup, feedReachable>>
    /\ UNCHANGED rateVars

\* the provider answers with the day's items, with a payload that holds no
\* item, or not at all (network error, HTTP status)
PriceFeedAnswers ==
    \E i \in 1 .. Len(inflight), answer \in {"ok", "empty", "error"} :
        HourlyResponse(i, answer)

WeatherAnswers ==
    \E i \in 1 .. Len(weatherInflight),
       answer \in {None} \cup {Some(w) : w \in WeatherPayloads} :
        WeatherResponse(i, answer)

SettingsChange == \E t \in Toggles : UpdateSettings(t)

Next ==
    \/ PriceFeedAnswers
    \/ FetchCurrentPrice
    \/ FetchHourlyPrices
    \/ FetchSunForecast
    \/ WeatherAnswers
    \/ SettingsChange
    \/ Tick

Spec == Init /\ [][Next]_vars

(***************************************************************************)
(* Retrying after a failed start: the application with its default         *)
(* settings, the price timers and the clock.  A timer that is due fires,   *)
(* and a request that is in flight is answered or fails: setInterval and   *)
(* the HTTP client see to both.                                            *)
(***************************************************************************)
RetryNext ==
    \/ PriceFeedAnswers
    \/ FetchCurrentPrice
    \/ FetchHourlyPrices
    \/ WeatherAnswers
    \/ Tick

RetryFairness ==
    /\ WF_vars(PriceFeedAnswers)
    /\ WF_vars(FetchCurrentPrice)
    /\ WF_vars(FetchHourlyPrices)
    /\ WF_vars(WeatherAnswers)

SpecRetry == Init /\ [][RetryNext]_vars /\ RetryFairness

\* the feed holds a sample for the current wall-clock hour
SampleForCurrentHour == feedToday[clock] # << >>

Evaluations == {evals[i] : i \in 1 .. Len(evals)}
Notifying == {i \in 1 .. Len(evals) : evals[i].emitted # "none"}

\* the evaluation that came immediately before evaluation i of the last handler
Preceding(i) ==
    IF i = 1 THEN prevEval
    ELSE [level |-> evals[i - 1].level, status |-> evals[i - 1].status]

\* C1 as stated: a recommendation notification is emitted exactly in the
\* evaluations whose status is go while the previously observed status is a
\* real value other than go.
C1_Original ==
    \A e \in Evaluations :
        (e.emitted = "recommendation")
            <=> (e.status = "go" /\ e.prevStatus \notin {"null", "go"})

\* C1 amended: a recommendation notification is emitted exactly in the
\* evaluations made with the low-price toggle enabled whose status is go
\* while lastRecommendationStatus is a real value other than go.
C1_RecommendationEdge ==
    \A e \in Evaluations :
        (e.emitted = "recommendation")
            <=> (e.lowPrice /\ e.status = "go" /\ e.prevStatus \notin {"null", "go"})

\* C1 witness: the wait -> go transition notifies
C1_Witness ==
    \E e \in Evaluations :
        e.emitted = "recommendation" /\ e.prevStatus = "wait" /\ e.status = "go"

\* C2: no evaluation up to and including the first one made on a
\* recommendation state computed from real price data emits a notification.
C2_FirstObservationSilent ==
    \A i \in 1 .. Len(evals) :
        (~observed.real /\ \A j \in 1 .. (i - 1) : ~evals[j].real)
            => evals[i].emitted = "none"

\* C3: in an evaluation where the status did not change to go and the tier
\* differs from the previously observed tier, a change to low (high) emits the
\* low (high) notification exactly when that direction's toggle is enabled.
C3_PriceEdge ==
    \A e \in Evaluations :
        (/\ ~(e.status = "go" /\ e.prevStatus # "go")
         /\ e.prevLevel # "null"
         /\ e.prevLevel # e.level)
            => /\ e.level = "low" => (e.emitted = "low" <=> e.lowPrice)
               /\ e.level = "high" => (e.emitted = "high" <=> e.highPrice)

\* C4: one handler (a fetch completion with every callback it triggers)
\* emits at most one notification, and no price notification next to a
\* recommendation notification.
C4_OnePerCycle ==
    /\ Cardinality(Notifying) <= 1
    /\ (\E e \in Evaluations : e.emitted = "recommendation")
           => \A e \in Evaluations : e.emitted \in {"none", "recommendation"}

\* C5: a recommendation notification is emitted only on status go, a low
\* (high) price notification only on tier low (high); an evaluation on
\* status okay or wait and tier medium or unknown emits nothing.
C5_OneDirectional ==
    \A e \in Evaluations :
        /\ e.emitted = "recommendation" => e.status = "go"
        /\ e.emitted = "low" => e.level = "low"
        /\ e.emitted = "high" => e.level = "high"
        /\ (e.status # "go" /\ e.level \notin {"low", "high"}) => e.emitted = "none"

\* C5 witness: an evaluation that leaves go or low for a neutral state, with
\* a toggle enabled
C5_Witness ==
    \E e \in Evaluations :
        /\ e.lowPrice
        /\ e.prevStatus = "go" \/ e.prevLevel = "low"
        /\ e.status # "go"
        /\ e.level \notin {"low", "high"}
        /\ e.emitted = "none"

\* C6: an evaluation whose tier and status both equal those of the
\* evaluation immediately before it emits no notification.
C6_NothingChangedSilent ==
    \A i \in 1 .. Len(evals) :
        (evals[i].level = Preceding(i).level /\ evals[i].status = Preceding(i).status)
            => evals[i].emitted = "none"

\* the markers evaluation i of the last handler left behind
MarkersAfter(i) ==
    IF i < Len(evals)
    THEN [level |-> evals[i + 1].prevLevel, status |-> evals[i + 1].prevStatus]
    ELSE [level |-> lastNotifiedLevel, status |-> lastRecommendationStatus]

C23_PolicySeesFreshState ==
    /\ \A k \in 1 .. Len(events) :
           events[k] # "recommendations-updated"
               => \E j \in (k + 1) .. Len(events) : events[j] = "recommendations-updated"
    /\ \A i \in 1 .. Len(evals) : evals[i].fresh

\* C28: when the response to a request stores its series after a request
\* started later has stored one, the cache keeps the series of the request
\* started later.
C28_LastStartedWins ==
    [][\A i \in 1 .. Len(inflight), answer \in {"ok", "empty"} :
           (HourlyResponse(i, answer) /\ IsSome(inflight[i].newer))
               => hourlyPrices' = inflight[i].newer]_vars

\* C22: the current price a consumer reads is absent or the record of the
\* cached today's series for the current wall-clock hour; it is absent when
\* that series is empty or has no record for the current hour.
C22_CurrentPriceDerived ==
    IsNone(currentPrice) \/ currentPrice = DerivedPrice(hourlyPrices, clock)

\* C21: when an hourly fetch fails, the feed unreachable ("error") or its
\* payload without a well-formed item ("empty"), the cached series after the
\* fetch equals the one before it and no hourly-updated event is published.
C21_FailedFetchKeepsCache ==
    [][\A i \in 1 .. Len(inflight), answer \in {"error", "empty"} :
           HourlyResponse(i, answer)
               => /\ hourlyPrices' = hourlyPrices
                  /\ \A k \in 1 .. Len(events') : events'[k] # "hourly-updated"]_vars

(***************************************************************************)
(* The recommendation engine on its own: getRecommendations applied to the *)
(* series PriceService stores for a day of samples, to a current price     *)
(* derived from that series (of the current hour, or of an earlier one     *)
(* when the 5-minute refresh has not run since, or found no record for the *)
(* current hour), and to a forecast.                                       *)
(***************************************************************************)
\* EUR cents that convert to 0, 100, 105, 115 and 202 CZK
EngineCents == {0, 395, 415, 455, 800}
\* a sample for every hour, or for every hour but hour 1
EngineFeeds ==
    [Hours -> {<<c>> : c \in EngineCents}]
        \cup {[h \in Hours |-> IF h = 1 THEN << >> ELSE <<c>>] : c \in {395, 800}}
\* tomorrow: not published, flat, cheapest after its first hour, free
EngineTomorrow ==
    {Unpublished,
     [h \in Hours |-> <<395>>],
     [h \in Hours |-> IF h = 0 THEN <<415>> ELSE <<395>>],
     [h \in Hours |-> <<0>>]}
\* a dark hour, a bright day, a sunny day, a day that turns sunny in the
\* third hour of the projection, and a morning on which the current reading
\* is sunny while the hourly value of the current hour (the mean of the
\* hour before) is still low
EngineWeather ==
    {WeatherOf(0, 90, 0), WeatherOf(400, 40, 1), WeatherOf(620, 10, 1),
     [WeatherOf(100, 70, 1) EXCEPT
         !.hourly.direct_radiation = [i \in 1 .. 2 * NumHours |-> IF i > 2 THEN 620 ELSE 100]],
     [WeatherOf(620, 10, 1) EXCEPT
         !.hourly.direct_radiation =
             [i \in 1 .. 2 * NumHours |-> IF i = 2 * NumHours THEN 100 ELSE 150 * i]]}

EngineInit ==
    /\ clock \in Hours
    /\ feedToday \in EngineFeeds
    /\ feedTomorrow \in EngineTomorrow
    /\ hourlyPrices = Some(FetchedHourly(feedToday, feedTomorrow))
    /\ currentPrice \in {DerivedPrice(hourlyPrices, h) : h \in 0 .. clock} \ {None}
    /\ settings = DEFAULT_SETTINGS
    /\ currentForecast \in {None} \cup {Some(SunForecastOf(w, clock)) : w \in EngineWeather}
    /\ currentState = None
    /\ lastNotifiedLevel = "null"
    /\ lastRecommendationStatus = "null"
    /\ inflight = << >>
    /\ weatherInflight = << >>
    /\ startup = "done"
    /\ evals = << >>
    /\ prevEval = NoEval
    /\ observed = [any |-> FALSE, real |-> FALSE]
    /\ events = << >>
    /\ feedReachable = TRUE
    /\ RateInit

\* recommendationService.getRecommendations(price, hourly, sun)
GetRecommendations ==
    /\ IsNone(currentState)
    /\ currentState' =
           StoreState(currentState,
               getRecommendations(currentPrice, hourlyPrices, currentForecast, clock))
    /\ UNCHANGED <<clock, feedToday, feedTomorrow, hourlyPrices, currentPrice, settings,
                   currentForecast, lastNotifiedLevel, lastRecommendationStatus,
                   inflight, weatherInflight, startup, evals, prevEval, observed,
                   events, feedReachable>>
    /\ UNCHANGED rateVars

EngineNext == GetRecommendations

SpecEngine == EngineInit /\ [][EngineNext]_vars

(***************************************************************************)
(* The aggregator on its own: fetchHourlyPrices applied to a provider      *)
(* response.  A response is the sequence of its <Item> elements in         *)
(* document order, each [date, periodIndex, price]; the provider numbers   *)
(* the periods of a day from 1 to 24.                                      *)
(***************************************************************************)
MaxItems == 3          \* items of a short response
PeriodsPerDay == 24

\* parseOTEResponse: date, hour and priceEur of every item, in document order
parseOTEResponse(response) ==
    [i \in 1 .. Len(response) |->
        [date |-> response[i].date,
         hour |-> response[i].periodIndex - 1,
         priceEur |-> response[i].price]] \o << >>

\* fetchHourlyPrices, lines 1302 to 1333: the series made of parsed items
PublishedSeries(items) ==
    [hoursToday |-> HourlySeries(SelectSeq(items, LAMBDA it : it.date = "today")),
     hoursTomorrow |-> HourlySeries(SelectSeq(items, LAMBDA it : it.date = "tomorrow"))]

\* items of a response; the provider numbers the hourly periods of a day
\* from 1, and the day on which summer time ends has one period more than
\* PeriodsPerDay; parseOTEResponse accepts any index
AggregatorItems ==
    [date : {"today", "tomorrow"},
     periodIndex : {1, 2, PeriodsPerDay, PeriodsPerDay + 1},
     price : {395, 415, 800}]

RECURSIVE SeqsUpTo(_, _)
\* the sequences over S of length at most n
SeqsUpTo(S, n) ==
    IF n = 0 THEN {<< >>}
    ELSE Let(SeqsUpTo(S, n - 1), LAMBDA shorter :
             shorter \cup {Append(s, x) : s \in {t \in shorter : Len(t) = n - 1}, x \in S})

\* a full day of pairwise distinct prices: the price of period i is
\* 10 EUR times the i-th value of an arithmetic walk through 1 .. 24, and
\* the items come in the order of a second such walk
FullDay(step, order) ==
    [k \in 1 .. PeriodsPerDay |->
        LET i == ((k * order) % PeriodsPerDay) + 1
        IN  [date |-> "today", periodIndex |-> i,
             price |-> 1000 * ((((i - 1) * step) % PeriodsPerDay) + 1)]] \o << >>

FullDays == {FullDay(step, order) : step \in {1, 5, 23}, order \in {1, 7}}

AggregatorResponses == SeqsUpTo(AggregatorItems, MaxItems) \cup FullDays

AggregatorInit ==
    /\ clock = 0
    /\ feedToday = Unpublished
    /\ feedTomorrow = Unpublished
    /\ hourlyPrices = None
    /\ currentPrice = None
    /\ settings = DEFAULT_SETTINGS
    /\ currentForecast = None
    /\ currentState = None
    /\ lastNotifiedLevel = "null"
    /\ lastRecommendationStatus = "null"
    /\ \E response \in AggregatorResponses :
           inflight = <<[kind |-> "hourly", startup |-> FALSE, newer |-> None,
                         response |-> response]>>
    /\ weatherInflight = << >>
    /\ startup = "done"
    /\ evals = << >>
    /\ prevEval = NoEval
    /\ observed = [any |-> FALSE, real |-> FALSE]
    /\ events = << >>
    /\ feedReachable = TRUE
    /\ RateInit

\* the response arrives: fetchHourlyPrices from line 1299 to line 1333
OteResponse ==
    /\ inflight # << >>
    /\ hourlyPrices' = Some(PublishedSeries(parseOTEResponse(inflight[1].response)))
    /\ inflight' = Tail(inflight)
    /\ UNCHANGED <<clock, feedToday, feedTomorrow, currentPrice, settings,
                   currentForecast, currentState, lastNotifiedLevel,
                   lastRecommendationStatus, weatherInflight, startup, evals,
                   prevEval, observed, events, feedReachable>>
    /\ UNCHANGED rateVars

AggregatorNext == OteResponse

SpecAggregator == AggregatorInit /\ [][AggregatorNext]_vars

\* the series a state publishes
Published ==
    IF IsNone(hourlyPrices) THEN {}
    ELSE {Val(hourlyPrices).hoursToday, Val(hourlyPrices).hoursTomorrow}

(***************************************************************************)
(* The forecast adapter on its own: fetchSunForecast applied to a payload  *)
(* of the weather service, over readings at and around the thresholds.     *)
(***************************************************************************)
WeatherIrradiances == {0, 199, 200, 201, 599, 600, 601, 1000}
WeatherCloudCovers == {0, 29, 30, 31, 59, 60, 61, 100}

WeatherInit ==
    /\ clock = 0
    /\ feedToday = Unpublished
    /\ feedTomorrow = Unpublished
    /\ hourlyPrices = None
    /\ currentPrice = None
    /\ settings = DEFAULT_SETTINGS
    /\ currentForecast = None
    /\ currentState = None
    /\ lastNotifiedLevel = "null"
    /\ lastRecommendationStatus = "null"
    /\ inflight = << >>
    /\ \E radiation \in WeatherIrradiances, cloud \in WeatherCloudCovers, day \in {0, 1} :
           weatherInflight = <<[startup |-> FALSE,
                                payload |-> WeatherOf(radiation, cloud, day)]>>
    /\ startup = "done"
    /\ evals = << >>
    /\ prevEval = NoEval
    /\ observed = [any |-> FALSE, real |-> FALSE]
    /\ events = << >>
    /\ feedReachable = TRUE
    /\ RateInit

\* the payload arrives: fetchSunForecast from line 112 to line 146
ForecastArrives ==
    /\ weatherInflight # << >>
    /\ currentForecast' = Some(SunForecastOf(weatherInflight[1].payload, clock))
    /\ weatherInflight' = Tail(weatherInflight)
    /\ UNCHANGED <<clock, feedToday, feedTomorrow, hourlyPrices, currentPrice, settings,
                   currentState, lastNotifiedLevel, lastRecommendationStatus,
                   inflight, startup, evals, prevEval, observed, events, feedReachable>>
    /\ UNCHANGED rateVars

WeatherNext == ForecastArrives

SpecWeather == WeatherInit /\ [][WeatherNext]_vars

(***************************************************************************)
(* The exchange rate on its own: fetchCzkRate called at any time, with any *)
(* answer of the CNB.  Time advances in steps of a third of the cache      *)
(* period; a request keeps the now of its call.                            *)
(***************************************************************************)
MaxRateTicks == 4      \* steps of time after the start
MaxRateInFlight == 2   \* requests to the CNB in flight at once

RateTimeStep == RateCacheMs \div 3

\* the EUR rates of a daily list, in tenths
CnbRates == {248, 253}

\* a rejected request, a list without a parsable EUR line, a list with one
CnbAnswers ==
    {[status |-> "error", rate |-> None], [status |-> "ok", rate |-> None]}
        \cup {[status |-> "ok", rate |-> Some(r)] : r \in CnbRates}

\* lines 1171 to 1193: the rate parsed from an answer, << >> when there is none
parseCnbRate(answer) == IF answer.status = "ok" THEN answer.rate ELSE None

\* mutant: the cache is never taken as valid
RateCached_Never(t, lastFetch, rate) == FALSE

\* line 1167
RateCached(t, lastFetch, rate) == t - lastFetch < RateCacheMs /\ rate > 0

appVars == <<clock, feedToday, feedTomorrow, hourlyPrices, currentPrice, settings,
             currentForecast, currentState, lastNotifiedLevel,
             lastRecommendationStatus, inflight, weatherInflight, startup,
             evals, prevEval, observed, events, feedReachable>>

RateSpecInit ==
    /\ clock = 0
    /\ feedToday = Unpublished
    /\ feedTomorrow = Unpublished
    /\ hourlyPrices = None
    /\ currentPrice = None
    /\ settings = DEFAULT_SETTINGS
    /\ currentForecast = None
    /\ currentState = None
    /\ lastNotifiedLevel = "null"
    /\ lastRecommendationStatus = "null"
    /\ inflight = << >>
    /\ weatherInflight = << >>
    /\ startup = "done"
    /\ evals = << >>
    /\ prevEval = NoEval
    /\ observed = [any |-> FALSE, real |-> FALSE]
    /\ events = << >>
    /\ feedReachable = TRUE
    /\ RateInit

\* fetchCzkRate up to its await: the cached rate is returned, or a request
\* is sent
FetchCzkRate ==
    /\ IF RateCached(now, czkRateLastFetch, cachedCzkRate)
       THEN /\ rateReturned' = Some([rate |-> cachedCzkRate, network |-> FALSE, at |-> now])
            /\ UNCHANGED rateInflight
       ELSE /\ Len(rateInflight) < MaxRateInFlight
            /\ rateInflight' = Append(rateInflight, [now |-> now])
            /\ UNCHANGED rateReturned
    /\ UNCHANGED <<now, cachedCzkRate, czkRateLastFetch>>
    /\ UNCHANGED appVars

\* fetchCzkRate from its await on: the answer to request i
CnbResponse(i, answer) ==
    \E parsed \in {parseCnbRate(answer)} :
        /\ rateInflight' = Remove(rateInflight, i)
        /\ IF IsSome(parsed)
           THEN /\ cachedCzkRate' = Val(parsed)
                /\ czkRateLastFetch' = rateInflight[i].now
                /\ rateReturned' = Some([rate |-> Val(parsed), network |-> TRUE,
                                         at |-> rateInflight[i].now])
           ELSE /\ rateReturned' = Some([rate |-> cachedCzkRate, network |-> TRUE,
                                         at |-> rateInflight[i].now])
                /\ UNCHANGED <<cachedCzkRate, czkRateLastFetch>>
        /\ UNCHANGED now
        /\ UNCHANGED appVars

CnbAnswer == \E i \in 1 .. Len(rateInflight), answer \in CnbAnswers : CnbResponse(i, answer)

\* time passes
RateTick ==
    /\ now < RateCacheMs + MaxRateTicks * RateTimeStep
    /\ now' = now + RateTimeStep
    /\ UNCHANGED <<cachedCzkRate, czkRateLastFetch, rateInflight, rateReturned>>
    /\ UNCHANGED appVars

RateNext ==
    \/ FetchCzkRate
    \/ CnbAnswer
    \/ RateTick

SpecRate == RateSpecInit /\ [][RateNext]_vars

(***************************************************************************)
(* Properties of the engine.                                               *)
(***************************************************************************)
\* C7: the returned overallStatus is go iff some recommendation is
\* excellent, okay iff none is excellent and some is good, wait iff the list
\* is empty, and an empty list comes with "Wait for better conditions".
C7_OverallStatus ==
    IsSome(currentState) =>
        LET recs == Val(currentState).recommendations
            status == Val(currentState).overallStatus
            excellent == \E i \in 1 .. Len(recs) : recs[i].quality = "excellent"
            good == \E i \in 1 .. Len(recs) : recs[i].quality = "good"
        IN  /\ status \in {"go", "okay", "wait"}
            /\ status = "go" <=> excellent
            /\ status = "okay" <=> (~excellent /\ good)
            /\ status = "wait" <=> recs = << >>
            /\ recs = << >> =>
                   Val(currentState).statusMessage = "Wait for better conditions"

\* C7 witness: a state okay on a good recommendation without an excellent one
C7_Witness ==
    /\ IsSome(currentState)
    /\ Val(currentState).overallStatus = "okay"
    /\ Len(Val(currentState).recommendations) = 2
    /\ \A i \in 1 .. 2 : Val(currentState).recommendations[i].quality = "good"

\* C8: the EV recommendation is excellent iff the price is within 5% of the
\* daily minimum and the sun forecast has irradiance > 500; otherwise good
\* iff the price is within 15% of the minimum, or irradiance > 500 and the
\* price is below the daily average; otherwise absent.
C8_EvScoring ==
    IsSome(currentState) =>
        LET price == Val(currentPrice).priceCZK
            today == Val(hourlyPrices).hoursToday
            dailyMin == calculateDailyMin(today)
            within5 == 100 * price <= dailyMin * 105
            within15 == 100 * price <= dailyMin * 115
            highSolar == /\ IsSome(currentForecast)
                         /\ Val(currentForecast).currentIrradiance > 500
            belowAverage == price * Len(today) < SeqSum(PricesCZK(today))
            ev == SelectSeq(Val(currentState).recommendations,
                            LAMBDA r : r.activity = "ev_charging")
            quality == IF ev = << >> THEN "absent" ELSE ev[1].quality
        IN  /\ Len(ev) <= 1
            /\ quality = "excellent" <=> (within5 /\ highSolar)
            /\ quality = "good" <=>
                   /\ ~(within5 /\ highSolar)
                   /\ within15 \/ (highSolar /\ belowAverage)

\* C9: no laundry recommendation when the price over the next 2 hours is not
\* stable; when it is stable, laundry is excellent iff the price is within 5%
\* of the daily minimum and irradiance > 300 in daytime, otherwise good iff
\* the price is within 15% of the minimum, or irradiance > 300 in daytime and
\* the price is below the daily average, otherwise absent.
C9_LaundryScoring ==
    IsSome(currentState) =>
        LET price == Val(currentPrice).priceCZK
            today == Val(hourlyPrices).hoursToday
            dailyMin == calculateDailyMin(today)
            within5 == 100 * price <= dailyMin * 105
            within15 == 100 * price <= dailyMin * 115
            sunny == /\ IsSome(currentForecast)
                     /\ Val(currentForecast).currentIrradiance > 300
                     /\ Val(currentForecast).isDaytime
            belowAverage == price * Len(today) < SeqSum(PricesCZK(today))
            stable == isPriceStable(Val(hourlyPrices), 2, clock)
            laundry == SelectSeq(Val(currentState).recommendations,
                                 LAMBDA r : r.activity = "laundry")
            quality == IF laundry = << >> THEN "absent" ELSE laundry[1].quality
        IN  /\ Len(laundry) <= 1
            /\ ~stable => quality = "absent"
            /\ stable =>
                   /\ quality = "excellent" <=> (within5 /\ sunny)
                   /\ quality = "good" <=>
                          /\ ~(within5 /\ sunny)
                          /\ within15 \/ (sunny /\ belowAverage)

\* C10: for every price of the day and both tolerances, isNearLowestPrice is
\* true exactly when price <= dailyMin * (1 + tolerance); the hour holding
\* the daily minimum is near-lowest.
C10_NearLowest ==
    IsSome(currentState) =>
        LET today == Val(hourlyPrices).hoursToday
            dailyMin == calculateDailyMin(today)
        IN  /\ \A i \in 1 .. Len(today), tolerance \in {5, 15} :
                   isNearLowestPrice(today[i].priceCZK, dailyMin, tolerance)
                       <=> 100 * today[i].priceCZK <= dailyMin * (100 + tolerance)
            /\ \A tolerance \in {5, 15} : isNearLowestPrice(dailyMin, dailyMin, tolerance)

\* C11 as stated: in every state whose recommendation list is non-empty,
\* nextWindow is absent.
C11_Original ==
    IsSome(currentState) =>
        (Len(Val(currentState).recommendations) > 0
            => IsNone(Val(currentState).nextWindow))

\* C11 amended: nextWindow is computed for every state made from a price and
\* an hourly series, whatever the recommendation list holds; the panel shows
\* it only when the list is empty.
C11_NextWindowShownWhenEmpty ==
    IsSome(currentState) =>
        /\ Val(currentState).nextWindow =
               findNextGoodWindow(Val(hourlyPrices), currentForecast,
                   calculateDailyMin(Val(hourlyPrices).hoursToday), clock)
        /\ Len(Val(currentState).recommendations) > 0
               => IsNone(RecommendationsNextWindow(Val(currentState)))
        /\ Len(Val(currentState).recommendations) = 0
               => RecommendationsNextWindow(Val(currentState))
                      = Val(currentState).nextWindow

\* C11 witness: a state with a recommendation and a computed next window
C11_Witness ==
    /\ IsSome(currentState)
    /\ Len(Val(currentState).recommendations) > 0
    /\ IsSome(Val(currentState).nextWindow)
    /\ IsNone(RecommendationsNextWindow(Val(currentState)))

\* C12: nextWindow is the earliest hour of today after the current hour whose
\* price is within 15% of the daily minimum ("Price drops"); if there is
\* none, the first hour of tomorrow within 5% of tomorrow's minimum ("Lowest
\* price", tomorrow); if there is none, the first future hour of the solar
\* projection with irradiance > 500 ("Solar peaks"); otherwise absent.
C12_NextWindowStages ==
    IsSome(currentState) =>
        LET today == Val(hourlyPrices).hoursToday
            tomorrow == Val(hourlyPrices).hoursTomorrow
            dailyMin == calculateDailyMin(today)
            tomorrowMin == calculateDailyMin(tomorrow)
            drops == {i \in 1 .. Len(today) :
                         /\ today[i].hour > clock
                         /\ 100 * today[i].priceCZK <= dailyMin * 115}
            lowest == {i \in 1 .. Len(tomorrow) :
                          100 * tomorrow[i].priceCZK <= tomorrowMin * 105}
            peaks == IF IsNone(currentForecast) THEN {}
                     ELSE {i \in 1 .. (Len(Val(currentForecast).hourlyIrradiance) - 1) :
                              Val(currentForecast).hourlyIrradiance[i + 1] > 500}
            expected ==
                IF drops # {}
                THEN LET i == CHOOSE i \in drops :
                                  \A j \in drops : today[i].hour <= today[j].hour
                     IN  Some([time |-> HourStr(today[i].hour), tomorrow |-> FALSE,
                               reason |-> "Price drops"])
                ELSE IF lowest # {}
                THEN LET i == CHOOSE i \in lowest : \A j \in lowest : i <= j
                     IN  Some([time |-> HourStr(tomorrow[i].hour), tomorrow |-> TRUE,
                               reason |-> "Lowest price"])
                ELSE IF peaks # {}
                THEN LET i == CHOOSE i \in peaks : \A j \in peaks : i <= j
                     IN  Some([time |-> HourStr((clock + i) % 24), tomorrow |-> FALSE,
                               reason |-> "Solar peaks"])
                ELSE None
        IN  Val(currentState).nextWindow = expected

\* C13 as stated: when tomorrow's series is empty and the current price is
\* the maximum of today's prices, the list is empty, the status is wait and
\* nextWindow is a "Solar peaks" window or absent.
C13_Original ==
    (/\ IsSome(currentState)
     /\ Val(hourlyPrices).hoursTomorrow = << >>
     /\ Val(currentPrice).priceCZK = SeqMax(PricesCZK(Val(hourlyPrices).hoursToday)))
        => /\ Val(currentState).recommendations = << >>
           /\ Val(currentState).overallStatus = "wait"
           /\ \/ IsNone(Val(currentState).nextWindow)
              \/ Val(Val(currentState).nextWindow).reason = "Solar peaks"

\* C13 amended: when tomorrow's series is empty and the current price is the
\* maximum of today's prices and is not near-lowest at 15%, the list is empty
\* and the status is wait; when in addition no later hour of today is
\* near-lowest at 15%, nextWindow is the first future hour of the solar
\* projection with irradiance > 500 ("Solar peaks"), absent when there is none.
C13_PeakPriceWaits ==
    LET today == Val(hourlyPrices).hoursToday
        dailyMin == calculateDailyMin(today)
        peaks == IF IsNone(currentForecast) THEN {}
                 ELSE {i \in 1 .. (Len(Val(currentForecast).hourlyIrradiance) - 1) :
                          Val(currentForecast).hourlyIrradiance[i + 1] > 500}
    IN  (/\ IsSome(currentState)
         /\ Val(hourlyPrices).hoursTomorrow = << >>
         /\ Val(currentPrice).priceCZK = SeqMax(PricesCZK(today))
         /\ ~isNearLowestPrice(Val(currentPrice).priceCZK, dailyMin, 15))
            => /\ Val(currentState).recommendations = << >>
               /\ Val(currentState).overallStatus = "wait"
               /\ (\A i \in 1 .. Len(today) :
                       today[i].hour > clock
                           => ~isNearLowestPrice(today[i].priceCZK, dailyMin, 15))
                      => Val(currentState).nextWindow =
                             IF peaks = {} THEN None
                             ELSE LET i == CHOOSE i \in peaks : \A j \in peaks : i <= j
                                  IN  Some([time |-> HourStr((clock + i) % 24),
                                            tomorrow |-> FALSE,
                                            reason |-> "Solar peaks"])

\* C13 witness: the last hour of the day holds the day's maximum, far above
\* the minimum, under a sunny projection
C13_Witness ==
    /\ IsSome(currentState)
    /\ IsSome(currentForecast)
    /\ Val(currentForecast).currentIrradiance > 500
    /\ Val(hourlyPrices).hoursTomorrow = << >>
    /\ clock = NumHours - 1
    /\ Val(currentPrice).priceCZK = SeqMax(PricesCZK(Val(hourlyPrices).hoursToday))
    /\ Val(currentPrice).priceCZK > 2 * calculateDailyMin(Val(hourlyPrices).hoursToday)
    /\ calculateDailyMin(Val(hourlyPrices).hoursToday) > 0
    /\ Val(currentState).recommendations = << >>
    /\ IsSome(Val(currentState).nextWindow)
    /\ Val(Val(currentState).nextWindow).reason = "Solar peaks"

\* C14: with the sun forecast absent, a current price within 15% of the
\* daily minimum yields an EV recommendation of quality good, and a laundry
\* recommendation of quality good exactly when the price is stable over the
\* next 2 hours; nothing is excellent, and a price outside the 15% yields no
\* recommendation.
C14_PriceAloneWithoutSun ==
    (IsSome(currentState) /\ IsNone(currentForecast)) =>
        LET price == Val(currentPrice).priceCZK
            today == Val(hourlyPrices).hoursToday
            within15 == 100 * price <= calculateDailyMin(today) * 115
            stable == isPriceStable(Val(hourlyPrices), 2, clock)
            recs == Val(currentState).recommendations
            ev == SelectSeq(recs, LAMBDA r : r.activity = "ev_charging")
            laundry == SelectSeq(recs, LAMBDA r : r.activity = "laundry")
        IN  /\ \A i \in 1 .. Len(recs) : recs[i].quality = "good"
            /\ within15 => /\ Len(ev) = 1
                           /\ Len(laundry) = (IF stable THEN 1 ELSE 0)
            /\ ~within15 => recs = << >>

C25_StabilityWindow ==
    IsSome(hourlyPrices) =>
        LET hp == Val(hourlyPrices)
            today == SelectSeq(hp.hoursToday,
                         LAMBDA h : h.hour \in clock .. (clock + StabilityHours - 1))
            missing == StabilityHours - Len(today)
            passesEnd == clock + StabilityHours > NumHours
            collected ==
                IF passesEnd /\ missing > 0
                THEN today \o SubSeq(hp.hoursTomorrow, 1,
                                     IF missing < Len(hp.hoursTomorrow) THEN missing
                                     ELSE Len(hp.hoursTomorrow))
                ELSE today
            prices == PricesCZK(collected)
        IN  isPriceStable(hp, StabilityHours, clock)
              = IF Len(collected) < 2 THEN TRUE
                ELSE IF SeqMin(prices) = 0 THEN FALSE
                ELSE 10 * (SeqMax(prices) - SeqMin(prices)) < 3 * SeqMin(prices)

\* C26: the windowEnd of a solar-based EV recommendation is the first hour
\* strictly after the current hour whose projected irradiance is below 200,
\* or the sunset time when there is none; it is never the current hour.
C26_WindowEndAfterNow ==
    (IsSome(currentState) /\ IsSome(currentForecast)) =>
        \A i \in 1 .. Len(Val(currentState).recommendations) :
            LET r == Val(currentState).recommendations[i]
                sun == Val(currentForecast)
                later == {k \in 1 .. Len(sun.hourlyIrradiance) - 1 :
                              sun.hourlyIrradiance[k + 1] < WindowEndThreshold}
            IN  (/\ r.activity = "ev_charging"
                 /\ r.reason \in {"Lowest price + sunny", "High solar generation"})
                    => /\ r.windowEnd # Some(HourStr(clock))
                       /\ r.windowEnd =
                              IF later = {} THEN Some(sun.sunset)
                              ELSE Some(HourStr(
                                       (clock + CHOOSE k \in later : \A j \in later : k <= j)
                                           % HoursPerDay))

(***************************************************************************)
(* Properties of the aggregator.                                           *)
(***************************************************************************)
\* C16: in every non-empty published series each hour has exactly one tier
\* of low, medium, high, and an hour with a strictly lower price never has a
\* higher tier than an hour with a strictly higher price.
C16_TiersMonotonic ==
    \A s \in Published :
        LET order(t) == IF t = "low" THEN 1 ELSE IF t = "medium" THEN 2 ELSE 3
        IN  /\ \A i \in 1 .. Len(s) : s[i].level \in {"low", "medium", "high"}
            /\ \A i, j \in 1 .. Len(s) :
                   s[i].priceEur < s[j].priceEur => order(s[i].level) <= order(s[j].level)

\* C16 witness: a three-sample day with one hour in each tier
C16_Witness ==
    \E s \in Published :
        /\ Len(s) = 3
        /\ {s[i].level : i \in 1 .. 3} = {"low", "medium", "high"}

\* C17: within a published series of N records the ranks (levelNum) are a
\* permutation of 1 .. N, strictly monotonic with price, and equal prices
\* have distinct ranks in the order of the series.
C17_RanksPermutation ==
    \A s \in Published :
        /\ {s[i].levelNum : i \in 1 .. Len(s)} = 1 .. Len(s)
        /\ \A i, j \in 1 .. Len(s) :
               /\ s[i].priceEur < s[j].priceEur => s[i].levelNum < s[j].levelNum
               /\ (s[i].priceEur = s[j].priceEur /\ i < j) => s[i].levelNum < s[j].levelNum

\* C18: in a day of 24 pairwise distinct prices the k-th cheapest hour has
\* rank k, and tier low for k in 1 .. 8, medium for 9 .. 16, high for
\* 17 .. 24; the cheapest hour is low with rank 1, the dearest high with 24.
C18_FullDayRanks ==
    \A s \in Published :
        (/\ Len(s) = 24
         /\ \A i, j \in 1 .. 24 : i # j => s[i].priceEur # s[j].priceEur)
            => \A i \in 1 .. 24 :
                   LET k == Cardinality({j \in 1 .. 24 : s[j].priceEur <= s[i].priceEur})
                   IN  /\ s[i].levelNum = k
                       /\ s[i].level = IF k <= 8 THEN "low"
                                       ELSE IF k <= 16 THEN "medium" ELSE "high"

\* C18 witness: the day of 24 increasing prices, hour 0 low with rank 1 and
\* hour 23 high with rank 24
C18_Witness ==
    \E s \in Published :
        /\ Len(s) = 24
        /\ \A i \in 1 .. 24 : s[i].hour = i - 1 /\ s[i].priceEur = 1000 * i
        /\ s[1].level = "low" /\ s[1].levelNum = 1
        /\ s[24].level = "high" /\ s[24].levelNum = 24

\* C19: in a day with a single price sample that hour has rank 1 and tier low.
C19_SingleSample ==
    \A s \in Published :
        Len(s) = 1 => (s[1].levelNum = 1 /\ s[1].level = "low")

\* C20: every series published by the aggregator is sorted ascending by
\* hour and holds exactly the hours the provider supplied for its date, no
\* more and no fewer; every hour lies in 0 .. 23; a series may hold fewer
\* than 24 entries.
C20_SeriesSortedExact ==
    [][inflight # << >> =>
        \A d \in {"today", "tomorrow"} :
            LET supplied == SelectSeq(inflight[1].response, LAMBDA it : it.date = d)
                s == IF d = "today" THEN Val(hourlyPrices').hoursToday
                     ELSE Val(hourlyPrices').hoursTomorrow
            IN  /\ \A i, j \in 1 .. Len(s) : i < j => s[i].hour <= s[j].hour
                /\ Len(s) = Len(supplied)
                /\ \A h \in 0 .. PeriodsPerDay, p \in {it.price : it \in AggregatorItems} :
                       Cardinality({i \in 1 .. Len(s) :
                                        s[i].hour = h /\ s[i].priceEur = p})
                         = Cardinality({i \in 1 .. Len(supplied) :
                                        supplied[i].periodIndex - 1 = h
                                        /\ supplied[i].price = p})
                /\ \A i \in 1 .. Len(s) : s[i].hour \in 0 .. 23]_vars

C27_RateCachedOneHour ==
    /\ [][/\ (FetchCzkRate /\ now - czkRateLastFetch < RateCacheMs)
               => /\ rateInflight' = rateInflight
                  /\ cachedCzkRate' = cachedCzkRate
                  /\ rateReturned' =
                         Some([rate |-> cachedCzkRate, network |-> FALSE, at |-> now])
          /\ \A i \in 1 .. Len(rateInflight),
                answer \in {a \in CnbAnswers : a.status = "error" \/ IsNone(a.rate)} :
                 CnbResponse(i, answer)
                     => /\ cachedCzkRate' = cachedCzkRate
                        /\ czkRateLastFetch' = czkRateLastFetch
                        /\ Val(rateReturned').rate = cachedCzkRate]_vars
    /\ [](czkRateLastFetch = 0 => cachedCzkRate = CzkRate10)

\* C27 witness: a call made two steps after a successful fetch of a new rate
\* has returned that rate without a request
C27_Witness ==
    /\ czkRateLastFetch > 0
    /\ cachedCzkRate # CzkRate10
    /\ IsSome(rateReturned)
    /\ Val(rateReturned) = [rate |-> cachedCzkRate, network |-> FALSE,
                            at |-> czkRateLastFetch + 2 * RateTimeStep]

====
